---------------------------- MODULE Spec2Model ----------------------------
(***************************************************************************)
(* Healthcare AI agent: the HL7v2 <-> FHIR message translator              *)
(* (backend/agent.py) and the HTTP gateway in front of it (backend/api.py).*)
(*                                                                         *)
(* A Python str is modelled as a sequence of one-character strings, so     *)
(* that str.split, str.join, str.upper and f-string formatting are         *)
(* computed character by character.  A Python value is a tagged record     *)
(* ("str", "int", "None", "list", "dict"); a dict's value is a function    *)
(* from its keys.  An evaluation either yields a value, Ok(v), or raises,  *)
(* Raise(e); an operator that models a Python expression returns one of    *)
(* the two and the callers propagate Raise the way Python unwinds.         *)
(***************************************************************************)
EXTENDS Integers, Sequences, FiniteSets, TLC

VARIABLES
    pc,            \* "idle": no request yet; "awaiting": the handler is blocked
                   \* in its requests.* call; "done": the response was sent
    endpoint,      \* the route of the current (or last) gateway request
    request,       \* the arguments of the current request
    outbound,      \* outbound HTTP requests issued for the current request
    upstream,      \* what the outbound call came back with
    response,      \* the gateway's answer to the current request
    hl7_segments,  \* history: the field lists the posted HL7 message was
                   \* assembled from (<<>> when it was not assembled here)
    origin         \* history: the FHIR record whose conversion was posted
                   \* back to /hl7/parse, or NoRecord

vars == <<pc, endpoint, request, outbound, upstream, response, hl7_segments, origin>>

---------------------------------------------------------------------------
(* Python values and outcomes                                              *)

Str(s) == [t |-> "str", v |-> s]
PyInt(n) == [t |-> "int", v |-> n]
PyNone == [t |-> "None"]
List(s) == [t |-> "list", v |-> s]
Dict(f) == [t |-> "dict", v |-> f]
EmptyMap == [k \in {} |-> PyNone]
EmptyDict == Dict(EmptyMap)

Ok(v) == [ok |-> TRUE, v |-> v]
Raise(e) == [ok |-> FALSE, exc |-> e]

\* bool(v): None, 0, "", [] and {} are falsy.
truthy(x) ==
    CASE x.t = "None" -> FALSE
      [] x.t = "int" -> x.v # 0
      [] x.t = "str" -> Len(x.v) > 0
      [] x.t = "list" -> Len(x.v) > 0
      [] x.t = "dict" -> DOMAIN x.v # {}

\* seq[i] on a Python list held as a TLA+ sequence (zero-based).
Item(seq, i) ==
    IF i < Len(seq) THEN Ok(seq[i + 1]) ELSE Raise("IndexError")

\* x[0] on an arbitrary value: str and list index, a JSON dict has only str
\* keys, None and int are not subscriptable.
getitem0(x) ==
    CASE x.t = "str" -> IF Len(x.v) > 0 THEN Ok(Str(<<x.v[1]>>)) ELSE Raise("IndexError")
      [] x.t = "list" -> Item(x.v, 0)
      [] x.t = "dict" -> Raise("KeyError")
      [] OTHER -> Raise("TypeError")

\* x.get(key, default): only a dict has the method.
get(x, key, default) ==
    IF x.t = "dict"
    THEN Ok(IF key \in DOMAIN x.v THEN x.v[key] ELSE default)
    ELSE Raise("AttributeError")

\* d.setdefault(key, value) for d[key] = value.
SetItemKeepFirst(d, key, value) ==
    IF key \in DOMAIN d THEN d
    ELSE [k \in DOMAIN d \cup {key} |-> IF k = key THEN value ELSE d[k]]

\* d[key] = value on a dict held as a function.
SetItem(d, key, value) ==
    [k \in DOMAIN d \cup {key} |-> IF k = key THEN value ELSE d[k]]

---------------------------------------------------------------------------
(* str operations                                                          *)

CR == "\r"
PIPE == "|"
CARET == "^"

\* s.split(sep) for a one-character sep: never empty, "" splits to [""].
RECURSIVE split(_, _)
split(s, sep) ==
    IF \A i \in 1..Len(s) : s[i] # sep THEN <<s>>
    ELSE LET i == CHOOSE k \in 1..Len(s) : s[k] = sep /\ \A j \in 1..(k - 1) : s[j] # sep
         IN <<SubSeq(s, 1, i - 1)>> \o split(SubSeq(s, i + 1, Len(s)), sep)

\* sep.join(parts): no separator before the first or after the last part.
RECURSIVE join(_, _)
join(sep, parts) ==
    IF Len(parts) = 0 THEN <<>>
    ELSE IF Len(parts) = 1 THEN parts[1]
    ELSE parts[1] \o <<sep>> \o join(sep, Tail(parts))

LowerLetters == <<"a", "b", "c", "d", "e", "f", "g", "h", "i", "j", "k", "l", "m",
                  "n", "o", "p", "q", "r", "s", "t", "u", "v", "w", "x", "y", "z">>
UpperLetters == <<"A", "B", "C", "D", "E", "F", "G", "H", "I", "J", "K", "L", "M",
                  "N", "O", "P", "Q", "R", "S", "T", "U", "V", "W", "X", "Y", "Z">>

upper_char(c) ==
    IF \E i \in 1..Len(LowerLetters) : LowerLetters[i] = c
    THEN UpperLetters[CHOOSE i \in 1..Len(LowerLetters) : LowerLetters[i] = c]
    ELSE c

\* The method compared as it was sent.
case_sensitive(s) == s

\* s.upper()
upper(s) == [i \in 1..Len(s) |-> upper_char(s[i])]

Digits == <<"0", "1", "2", "3", "4", "5", "6", "7", "8", "9">>

\* str(n) for a non-negative int.
RECURSIVE int_str(_)
int_str(n) ==
    IF n < 10 THEN <<Digits[n + 1]>>
    ELSE int_str(n \div 10) \o <<Digits[(n % 10) + 1]>>

\* format(x) inside an f-string: a str as it is, None as "None", an int in
\* decimal.
format(x) ==
    CASE x.t = "str" -> x.v
      [] x.t = "None" -> <<"N", "o", "n", "e">>
      [] x.t = "int" -> int_str(x.v)

---------------------------------------------------------------------------
(* HealthcareAgent.parse_hl7_message                                       *)

PID == <<"P", "I", "D">>
OBX == <<"O", "B", "X">>

PID_MIN_FIELDS == 5          \* len(fields) > 5
\* fields[2] read for fields[3].
PatientIdFieldOffByOne == 3 - 1
PATIENT_ID_FIELD == 3        \* fields[3]
NAME_FIELD == 5              \* fields[5]
NAME_MIN_PARTS == 2          \* len(name_parts) >= 2
OBX_MIN_FIELDS == 5          \* len(fields) > 5
OBX_ID_FIELD == 3
OBX_VALUE_FIELD == 5
OBX_UNITS_FIELD == 6         \* fields[6]
\* len(fields) > 5 tested for len(fields) > 6.
UnitsGuardOffByOne == 6 - 1
OBX_UNITS_GUARD == 6         \* if len(fields) > 6

\* The body of `if segment_type == "PID":`.
pid_segment(result, fields) ==
    IF Len(fields) > PID_MIN_FIELDS
    THEN LET id == Item(fields, PATIENT_ID_FIELD)
             name == IF Len(fields) > NAME_FIELD THEN Item(fields, NAME_FIELD) ELSE Ok(<<>>)
         IN IF ~id.ok THEN id
            ELSE IF ~name.ok THEN name
            ELSE LET r1 == SetItem(result, "patient_id", Str(id.v))
                     name_parts == IF Len(fields) > NAME_FIELD THEN split(name.v, CARET) ELSE <<>>
                 IN IF Len(name_parts) >= NAME_MIN_PARTS
                    THEN LET last == Item(name_parts, 0)
                             first == Item(name_parts, 1)
                         IN IF ~last.ok THEN last
                            ELSE IF ~first.ok THEN first
                            ELSE Ok(SetItem(SetItem(r1, "last_name", Str(last.v)),
                                            "first_name", Str(first.v)))
                    ELSE Ok(r1)
    ELSE Ok(result)

\* list.insert(0, x) for list.append(x).
prepend(list, x) == List(<<x>> \o list.v)

\* list.append
append(list, x) == List(Append(list.v, x))

\* The body of `elif segment_type == "OBX":`.
obx_segment(result, fields) ==
    IF Len(fields) > OBX_MIN_FIELDS
    THEN LET r0 == IF "observations" \notin DOMAIN result
                   THEN SetItem(result, "observations", List(<<>>))
                   ELSE result
             id == Item(fields, OBX_ID_FIELD)
             value == Item(fields, OBX_VALUE_FIELD)
             units == IF Len(fields) > OBX_UNITS_GUARD
                      THEN LET u == Item(fields, OBX_UNITS_FIELD)
                           IN IF u.ok THEN Ok(Str(u.v)) ELSE u
                      ELSE Ok(PyNone)
         IN IF ~id.ok THEN id
            ELSE IF ~value.ok THEN value
            ELSE IF ~units.ok THEN units
            ELSE Ok(SetItem(r0, "observations",
                     append(r0["observations"],
                            Dict([id |-> Str(id.v),
                                  value |-> Str(value.v),
                                  units |-> units.v]))))
    ELSE Ok(result)

\* One pass of `for segment in segments:`.
parse_segment(result, segment) ==
    IF Len(segment) = 0 THEN Ok(result)
    ELSE LET fields == split(segment, PIPE)
             segment_type == Item(fields, 0)
         IN IF ~segment_type.ok THEN segment_type
            ELSE IF segment_type.v = PID THEN pid_segment(result, fields)
            ELSE IF segment_type.v = OBX THEN obx_segment(result, fields)
            ELSE Ok(result)

\* The loop from segment i on, an exception ending it.
RECURSIVE parse_segments(_, _, _)
parse_segments(segments, i, result) ==
    IF i > Len(segments) THEN Ok(result)
    ELSE LET r == parse_segment(result, segments[i])
         IN IF r.ok THEN parse_segments(segments, i + 1, r.v) ELSE r

\* Ok(Dict(result)) or the exception raised.
parse_hl7_message(hl7_message) ==
    LET r == parse_segments(split(hl7_message, CR), 1, EmptyMap)
    IN IF r.ok THEN Ok(Dict(r.v)) ELSE r

---------------------------------------------------------------------------
(* HealthcareAgent.convert_fhir_to_hl7                                     *)

MSH_HEADER ==
    <<"M", "S", "H", "|", "^", "~", "\\", "&", "|",
      "S", "E", "N", "D", "I", "N", "G", "_", "A", "P", "P", "|",
      "S", "E", "N", "D", "I", "N", "G", "_", "F", "A", "C", "I", "L", "I", "T", "Y", "|",
      "R", "E", "C", "E", "I", "V", "I", "N", "G", "_", "A", "P", "P", "|",
      "R", "E", "C", "E", "I", "V", "I", "N", "G", "_", "F", "A", "C", "I", "L", "I", "T", "Y", "|",
      "2", "0", "2", "3", "0", "6", "1", "5", "1", "2", "0", "0", "0", "0", "|", "|",
      "A", "D", "T", "^", "A", "0", "1", "|",
      "M", "S", "G", "0", "0", "0", "0", "1", "|", "P", "|", "2", ".", "5">>

\* A slip that puts the given name before the family name.
pid_line_swapped(patient_id, family, given, birth_date, gender) ==
    PID \o <<"|", "|", "|">> \o format(patient_id) \o <<"|", "|">>
        \o format(given) \o <<"^">> \o format(family) \o <<"|", "|">>
        \o format(birth_date) \o <<"|">> \o format(gender)

\* A slip that puts the id one field early.
pid_line_shifted(patient_id, family, given, birth_date, gender) ==
    PID \o <<"|", "|">> \o format(patient_id) \o <<"|", "|", "|">>
        \o format(family) \o <<"^">> \o format(given) \o <<"|", "|">>
        \o format(birth_date) \o <<"|">> \o format(gender)

\* f"PID|||{patient_id}||{family}^{given}||{birth_date}|{gender}"
pid_line(patient_id, family, given, birth_date, gender) ==
    PID \o <<"|", "|", "|">> \o format(patient_id) \o <<"|", "|">>
        \o format(family) \o <<"^">> \o format(given) \o <<"|", "|">>
        \o format(birth_date) \o <<"|">> \o format(gender)

\* fhir_data is a dict (the gateway's FhirData model admits nothing else);
\* Ok(Str(message)) or the exception raised.
convert_fhir_to_hl7(fhir_data) ==
    IF "name" \in DOMAIN fhir_data.v /\ truthy(fhir_data.v["name"])
    THEN LET name == getitem0(fhir_data.v["name"])
         IN IF ~name.ok THEN name
            ELSE LET family == get(name.v, "family", Str(<<>>))
                 IN IF ~family.ok THEN family
                    ELSE LET given ==
                                 IF "given" \in DOMAIN name.v.v /\ truthy(name.v.v["given"])
                                 THEN LET g == get(name.v, "given", List(<<Str(<<>>)>>))
                                      IN IF g.ok THEN getitem0(g.v) ELSE g
                                 ELSE Ok(Str(<<>>))
                             patient_id == get(fhir_data, "id", Str(<<>>))
                             gender == get(fhir_data, "gender", Str(<<>>))
                             birth_date == get(fhir_data, "birthDate", Str(<<>>))
                         IN IF ~given.ok THEN given
                            ELSE Ok(Str(join(CR, <<MSH_HEADER,
                                     pid_line(patient_id.v, family.v, given.v,
                                              birth_date.v, gender.v)>>)))
    ELSE Ok(Str(join(CR, <<MSH_HEADER>>)))

---------------------------------------------------------------------------
(* The outbound calls of HealthcareAgent                                   *)

GET == <<"G", "E", "T">>
POST == <<"P", "O", "S", "T">>
PUT == <<"P", "U", "T">>
DELETE == <<"D", "E", "L", "E", "T", "E">>

\* The if/elif chain of call_external_api: the requests function the method
\* selects, or "ValueError" when the else branch raises.
method_dispatch(method) ==
    IF upper(method) = GET THEN "get"
    ELSE IF upper(method) = POST THEN "post"
    ELSE IF upper(method) = PUT THEN "put"
    ELSE IF upper(method) = DELETE THEN "delete"
    ELSE "ValueError"

\* What a requests.* call comes back with: an exception of the transport
\* (connection refused, timeout, ...) or a response.
NoReply == [kind |-> "none"]
TransportError == [kind |-> "error"]
Reply(status, body) == [kind |-> "response", status |-> status, body |-> body]

\* A response body: whether response.content is non-empty, and what
\* response.json() yields for it.
EmptyBody == [content |-> FALSE, json |-> Raise("JSONDecodeError")]
TextBody == [content |-> TRUE, json |-> Raise("JSONDecodeError")]
JsonBody(value) == [content |-> TRUE, json |-> Ok(value)]

\* Response.raise_for_status(): HTTPError for a 4xx or a 5xx status, nothing
\* otherwise.
raise_for_status(status) == 400 <= status /\ status < 600

\* response = requests.get(...); response.raise_for_status()
checked(reply) ==
    IF reply.kind = "error" THEN Raise("ConnectionError")
    ELSE IF raise_for_status(reply.status) THEN Raise("HTTPError")
    ELSE Ok(reply.body)

\* HealthcareAgent.get_patient once requests.get has returned.
get_patient(reply) ==
    LET r == checked(reply) IN IF r.ok THEN r.v.json ELSE r

\* HealthcareAgent.search_patients once requests.get has returned.
search_patients(reply) ==
    LET r == checked(reply)
    IN IF ~r.ok THEN r
       ELSE IF ~r.v.json.ok THEN r.v.json
       ELSE get(r.v.json.v, "entry", List(<<>>))

\* HealthcareAgent.get_patient_observations once requests.get has returned.
get_patient_observations(reply) ==
    LET r == checked(reply)
    IN IF ~r.ok THEN r
       ELSE IF ~r.v.json.ok THEN r.v.json
       ELSE get(r.v.json.v, "entry", List(<<>>))

\* HealthcareAgent.call_external_api once the requests.* call has returned.
call_external_api(reply) ==
    LET r == checked(reply)
    IN IF ~r.ok THEN r
       ELSE IF r.v.content THEN r.v.json ELSE Ok(EmptyDict)

---------------------------------------------------------------------------
(* The gateway (backend/api.py)                                            *)

NoResponse == [status |-> 0]
NoRecord == [t |-> "absent"]

\* The status codes of /patient/{id} and /call-api exchanged.
error_status_swapped(route) ==
    CASE route = "get_patient" -> 500
      [] route = "search_patients" -> 500
      [] route = "get_patient_observations" -> 500
      [] route = "parse_hl7" -> 400
      [] route = "convert_fhir_to_hl7" -> 400
      [] route = "call_external_api" -> 404

\* The status_code of each route's `except Exception` clause.
error_status(route) ==
    CASE route = "get_patient" -> 404
      [] route = "search_patients" -> 500
      [] route = "get_patient_observations" -> 500
      [] route = "parse_hl7" -> 400
      [] route = "convert_fhir_to_hl7" -> 400
      [] route = "call_external_api" -> 500

\* What a route returns when its agent call returned value.
payload(route, value) ==
    IF route = "convert_fhir_to_hl7" THEN Dict([hl7_message |-> value]) ELSE value

\* try: return ... / except Exception as e: raise HTTPException(...)
try_except(route, result) ==
    IF result.ok
    THEN [status |-> 200, body |-> payload(route, result.v)]
    ELSE [status |-> error_status(route), detail |-> result.exc]

\* A handler that calls once more when its call failed.
after_call_retrying(route, result, n) ==
    IF ~result.ok /\ n < 2
    THEN [pc |-> "awaiting", outbound |-> n + 1, response |-> NoResponse]
    ELSE [pc |-> "done", outbound |-> n, response |-> try_except(route, result)]

\* Where a handler stands once its single requests.* call has returned: the
\* agent method has no loop around the call, and the route answers.
after_call(route, result, n) ==
    [pc |-> "done", outbound |-> n, response |-> try_except(route, result)]

---------------------------------------------------------------------------
(* The requests a client sends                                             *)

MaxSegs == 3     \* segments in a posted HL7 message

E == <<>>
Chars1(c) == <<c>>

\* A field as the list of its caret-components.
EF == <<E>>
F(text) == <<text>>
SmithJohn == <<Chars1("S"), Chars1("J")>>
DoeKayLee == <<Chars1("D"), Chars1("K"), Chars1("L")>>

\* Segments as field lists: PID and OBX segments on both sides of each
\* field-count and component-count test, an empty segment, a segment
\* without '|', segments of other types.
SegmentPool ==
    { <<F(PID), EF, EF, F(Chars1("9")), EF>>,
      <<F(PID), EF, EF, F(Chars1("1")), EF, SmithJohn>>,
      <<F(PID), EF, EF, F(Chars1("2")), EF, F(Chars1("D"))>>,
      <<F(PID), EF, EF, F(Chars1("3")), EF, DoeKayLee, EF, F(<<"1", "9", "8", "0">>),
        F(Chars1("M"))>>,
      <<F(PID), EF, EF, EF, EF, <<E, Chars1("J")>>, EF>>,
      <<F(OBX), EF, F(<<"N", "M">>), F(Chars1("h")), EF>>,
      <<F(OBX), EF, F(<<"N", "M">>), F(Chars1("h")), EF, F(<<"1", "8", "0">>)>>,
      <<F(OBX), EF, F(<<"N", "M">>), <<Chars1("b"), Chars1("P")>>, EF, F(<<"8", "0">>),
        F(<<"m", "m">>)>>,
      <<F(OBX), EF, F(<<"N", "M">>), F(Chars1("w")), EF, F(Chars1("7")), EF>>,
      <<F(<<"M", "S", "H">>), <<E, <<"~", "\\", "&">>>>, F(Chars1("A"))>>,
      <<EF>>,
      <<F(PID)>>,
      <<F(<<"Z", "Z", "Z">>), EF, EF, F(Chars1("1")), EF, SmithJohn, F(Chars1("x"))>> }

SegmentLists == UNION { [1..n -> SegmentPool] : n \in 0..MaxSegs }

\* The text of a field, of a segment and of the message a client assembles.
FieldText(field) == join(CARET, field)
SegmentText(seg) == join(PIPE, [i \in 1..Len(seg) |-> FieldText(seg[i])])
Message(segs) == join(CR, [i \in 1..Len(segs) |-> SegmentText(segs[i])])

\* A dict with the keys of r whose value is not NoRecord.
MkDict(r) == Dict([k \in {x \in DOMAIN r : r[x] # NoRecord} |-> r[k]])

Doe == <<"D", "o", "e">>
Jane == <<"J", "a", "n", "e">>
Smith == <<"S", "m", "i", "t", "h">>

Families == {NoRecord, Str(Doe), PyNone, Str(<<"D", "o", "^", "e">>)}
Givens ==
    { NoRecord, List(<<>>), List(<<Str(Jane)>>), List(<<Str(Jane), Str(Chars1("Q"))>>),
      Str(Jane), PyNone, PyInt(5), Dict([text |-> Str(Jane)]) }
NameEntries == { MkDict([family |-> f, given |-> g]) : f \in Families, g \in Givens }
OtherEntry == Dict([family |-> Str(Smith), given |-> List(<<Str(Chars1("X"))>>)])
Names ==
    { NoRecord, PyNone, Str(E), Str(Smith), List(<<>>), EmptyDict,
      Dict([family |-> Str(Doe)]), List(<<Str(Smith)>>), PyInt(0), PyInt(5) }
    \cup { List(<<e>>) : e \in NameEntries }
    \cup { List(<<e, OtherEntry>>) : e \in NameEntries }
Ids == {NoRecord, Str(Chars1("7")), PyInt(42), PyNone, Str(<<"7", "|", "8">>)}
Genders == {NoRecord, Str(Chars1("F"))}
BirthDates == {NoRecord, Str(<<"1", "9", "9", "0", "0", "1", "0", "1">>)}

FhirRecords ==
    { MkDict([name |-> n, id |-> i, gender |-> g, birthDate |-> b]) :
        n \in Names, i \in Ids, g \in Genders, b \in BirthDates }

lower_char(c) ==
    IF \E i \in 1..Len(UpperLetters) : UpperLetters[i] = c
    THEN LowerLetters[CHOOSE i \in 1..Len(UpperLetters) : UpperLetters[i] = c]
    ELSE c

\* Every spelling of w in upper and lower case.
CaseVariants(w) ==
    { [i \in 1..Len(w) |-> IF i \in S THEN lower_char(w[i]) ELSE w[i]] :
        S \in SUBSET (1..Len(w)) }

Methods ==
    UNION { CaseVariants(w) :
            w \in { GET, POST, PUT, DELETE, <<"P", "A", "T", "C", "H">>,
                    <<"H", "E", "A", "D">>, <<"G", "E", "T", "S">>, <<"U", "T">>, E } }

PatientIds == {Str(Chars1("1")), Str(<<"e", "x">>)}
Searches ==
    { [name |-> n, identifier |-> PyNone, birthdate |-> PyNone, gender |-> g] :
        n \in {PyNone, Str(Smith)}, g \in {PyNone, Str(Chars1("F"))} }

Statuses == {200, 204, 300, 304, 400, 404, 500, 599}
Bodies ==
    { EmptyBody, TextBody,
      JsonBody(Dict([resourceType |-> Str(<<"P">>), id |-> Str(Chars1("1"))])),
      JsonBody(Dict([resourceType |-> Str(<<"B">>),
                     entry |-> List(<<Dict([fullUrl |-> Str(Chars1("u"))])>>)])),
      JsonBody(List(<<>>)) }
Replies == {TransportError} \cup { Reply(st, b) : st \in Statuses, b \in Bodies }

---------------------------------------------------------------------------
(* The routes                                                              *)

Init ==
    /\ pc = "idle"
    /\ endpoint = "none"
    /\ request = EmptyMap
    /\ outbound = 0
    /\ upstream = NoReply
    /\ response = NoResponse
    /\ hl7_segments = <<>>
    /\ origin = NoRecord

\* A route whose agent method starts with one requests.* call.
Send(route, args) ==
    /\ pc' = "awaiting"
    /\ endpoint' = route
    /\ request' = args
    /\ outbound' = 1
    /\ upstream' = NoReply
    /\ response' = NoResponse
    /\ hl7_segments' = <<>>
    /\ origin' = NoRecord

\* A route that answers without an outbound call.
Answer(route, args, result, segs, record) ==
    /\ pc' = "done"
    /\ endpoint' = route
    /\ request' = args
    /\ outbound' = 0
    /\ upstream' = NoReply
    /\ response' = try_except(route, result)
    /\ hl7_segments' = segs
    /\ origin' = record

\* GET /patient/{patient_id}
api_get_patient ==
    /\ pc = "idle"
    /\ \E patient_id \in PatientIds : Send("get_patient", [patient_id |-> patient_id])

\* params = {k: v for k, v in search.dict().items() if v is not None}
search_params(search) ==
    [k \in {x \in DOMAIN search : search[x] # PyNone} |-> search[k]]

\* POST /patients/search
api_search_patients ==
    /\ pc = "idle"
    /\ \E search \in Searches : Send("search_patients", [params |-> search_params(search)])

\* GET /patient/{patient_id}/observations
api_get_patient_observations ==
    /\ pc = "idle"
    /\ \E patient_id \in PatientIds :
        Send("get_patient_observations", [patient_id |-> patient_id])

\* POST /call-api: the method is tested before any requests.* call.
api_call_external_api ==
    /\ pc = "idle"
    /\ \E method \in Methods :
        IF method_dispatch(method) = "ValueError"
        THEN Answer("call_external_api", [method |-> method], Raise("ValueError"),
                    <<>>, NoRecord)
        ELSE Send("call_external_api", [method |-> method])

\* The pending requests.* call returns and the handler runs to its end.
requests_returns ==
    /\ pc = "awaiting"
    /\ \E reply \in Replies :
         LET result == CASE endpoint = "get_patient" -> get_patient(reply)
                         [] endpoint = "search_patients" -> search_patients(reply)
                         [] endpoint = "get_patient_observations" ->
                                get_patient_observations(reply)
                         [] endpoint = "call_external_api" -> call_external_api(reply)
             next == after_call(endpoint, result, outbound)
         IN /\ upstream' = reply
            /\ pc' = next.pc
            /\ outbound' = next.outbound
            /\ response' = next.response
    /\ UNCHANGED <<endpoint, request, hl7_segments, origin>>

\* POST /hl7/parse
api_parse_hl7 ==
    /\ pc = "idle"
    /\ \E segs \in SegmentLists :
        Answer("parse_hl7", [message |-> Message(segs)],
               parse_hl7_message(Message(segs)), segs, NoRecord)

\* POST /fhir-to-hl7
api_convert_fhir_to_hl7 ==
    /\ pc = "idle"
    /\ \E data \in FhirRecords :
        Answer("convert_fhir_to_hl7", [data |-> data], convert_fhir_to_hl7(data),
               <<>>, NoRecord)

\* POST /hl7/parse with the hl7_message /fhir-to-hl7 has just returned.
api_parse_hl7_converted ==
    /\ pc = "done"
    /\ endpoint = "convert_fhir_to_hl7"
    /\ response.status = 200
    /\ Answer("parse_hl7", [message |-> response.body.v.hl7_message.v],
              parse_hl7_message(response.body.v.hl7_message.v), <<>>, request.data)

\* The response has been sent: nothing of the request is kept, and the next
\* request finds the gateway as the first one did.
next_request ==
    /\ pc = "done"
    /\ pc' = "idle"
    /\ endpoint' = "none"
    /\ request' = EmptyMap
    /\ outbound' = 0
    /\ upstream' = NoReply
    /\ response' = NoResponse
    /\ hl7_segments' = <<>>
    /\ origin' = NoRecord

Next ==
    \/ api_get_patient
    \/ api_search_patients
    \/ api_get_patient_observations
    \/ api_call_external_api
    \/ requests_returns
    \/ api_parse_hl7
    \/ api_convert_fhir_to_hl7
    \/ api_parse_hl7_converted
    \/ next_request

Spec == Init /\ [][Next]_vars

---------------------------------------------------------------------------
(* Properties of /hl7/parse, stated over the field lists the message was   *)
(* assembled from                                                          *)

\* A /hl7/parse request for an assembled message has been answered.
ParseDone == pc = "done" /\ endpoint = "parse_hl7" /\ origin = NoRecord

TypeOf(seg) == FieldText(seg[1])
PidIdx(segs) == {i \in 1..Len(segs) : TypeOf(segs[i]) = PID}
Last(S) == CHOOSE i \in S : \A j \in S : j <= i
PatientKeys == {"patient_id", "last_name", "first_name"}
PatientPart(r) == [k \in DOMAIN r \cap PatientKeys |-> r[k]]

\* What one PID segment produces on its own: nothing with 5 fields or fewer,
\* else patient_id from field 3, and the two names from field 5 when it has
\* at least two components.
AloneProduces(seg) ==
    IF Len(seg) <= 5 THEN EmptyMap
    ELSE IF Len(seg[6]) >= 2
    THEN [k \in PatientKeys |->
            CASE k = "patient_id" -> Str(FieldText(seg[4]))
              [] k = "last_name" -> Str(seg[6][1])
              [] k = "first_name" -> Str(seg[6][2])]
    ELSE [k \in {"patient_id"} |-> Str(FieldText(seg[4]))]

\* C1: parse_hl7_message is total over strings: every message, the empty
\* one, one without '|', one of carriage returns only and one with short
\* segments included, is answered with a record mapping, never with the
\* error of a raised exception.
C1_ParseTotal ==
    (pc = "done" /\ endpoint = "parse_hl7")
        => (response.status = 200 /\ response.body.t = "dict")

\* A message with a PID segment of too few fields and an OBX segment without
\* field 6 was parsed to a record.
C1_Witness ==
    /\ ParseDone
    /\ response.status = 200
    /\ \E i \in 1..Len(hl7_segments) :
          TypeOf(hl7_segments[i]) = PID /\ Len(hl7_segments[i]) <= 5
    /\ \E i \in 1..Len(hl7_segments) :
          TypeOf(hl7_segments[i]) = OBX /\ Len(hl7_segments[i]) = 6

\* C3 as stated: with several PID segments, the patient fields of the result
\* are exactly those the last PID segment alone would produce.
C3_LastPidAlone ==
    (ParseDone /\ Cardinality(PidIdx(hl7_segments)) >= 2)
        => /\ response.status = 200
           /\ PatientPart(response.body.v)
                = AloneProduces(hl7_segments[Last(PidIdx(hl7_segments))])

IdWriters(segs) == {i \in PidIdx(segs) : Len(segs[i]) > 5}
NameWriters(segs) == {i \in PidIdx(segs) : Len(segs[i]) > 5 /\ Len(segs[i][6]) >= 2}

\* C3 as amended: with several PID segments, each patient field is the one
\* written by the last PID segment that writes it: patient_id by the last PID
\* segment of more than 5 fields, last_name and first_name by the last PID
\* segment of more than 5 fields whose field 5 has two components or more; a
\* field no PID segment writes is absent.
C3_LastWriteWins ==
    (ParseDone /\ Cardinality(PidIdx(hl7_segments)) >= 2)
        => /\ response.status = 200
           /\ LET r == response.body.v
                  ids == IdWriters(hl7_segments)
                  names == NameWriters(hl7_segments)
              IN /\ ("patient_id" \in DOMAIN r) <=> (ids # {})
                 /\ ids # {} =>
                      r["patient_id"] = Str(FieldText(hl7_segments[Last(ids)][4]))
                 /\ ("last_name" \in DOMAIN r) <=> (names # {})
                 /\ ("first_name" \in DOMAIN r) <=> (names # {})
                 /\ names # {} =>
                      /\ r["last_name"] = Str(hl7_segments[Last(names)][6][1])
                      /\ r["first_name"] = Str(hl7_segments[Last(names)][6][2])

\* The last PID segment writes the id only, and the names are those of an
\* earlier PID segment.
C3_Witness ==
    /\ ParseDone
    /\ response.status = 200
    /\ Cardinality(PidIdx(hl7_segments)) >= 2
    /\ IdWriters(hl7_segments) # {}
    /\ NameWriters(hl7_segments) # {}
    /\ Last(NameWriters(hl7_segments)) < Last(IdWriters(hl7_segments))
    /\ "last_name" \in DOMAIN response.body.v

\* C4: with a single PID segment, the patient fields of the result are
\* patient_id = field 3 and the first two components of field 5 as last_name
\* and first_name when the segment has more than 5 fields and field 5 two
\* components or more; patient_id alone when field 5 has one component; none
\* of the three keys when the segment has 5 fields or fewer.
C4_SinglePid ==
    (ParseDone /\ Cardinality(PidIdx(hl7_segments)) = 1)
        => /\ response.status = 200
           /\ PatientPart(response.body.v)
                = AloneProduces(hl7_segments[Last(PidIdx(hl7_segments))])

\* The single PID segment has a one-component name: the id is set and
\* neither name is.
C4_Witness ==
    /\ ParseDone
    /\ response.status = 200
    /\ Cardinality(PidIdx(hl7_segments)) = 1
    /\ LET seg == hl7_segments[Last(PidIdx(hl7_segments))]
       IN Len(seg) > 5 /\ Len(seg[6]) = 1
    /\ DOMAIN response.body.v \cap PatientKeys = {"patient_id"}

Qualifies(seg) == TypeOf(seg) = OBX /\ Len(seg) > 5
ExpectedObservation(seg) ==
    Dict([id |-> Str(FieldText(seg[4])),
          value |-> Str(FieldText(seg[6])),
          units |-> IF Len(seg) > 6 THEN Str(FieldText(seg[7])) ELSE PyNone])
ExpectedObservations(segs) ==
    LET sel == SelectSeq(segs, Qualifies)
    IN [i \in 1..Len(sel) |-> ExpectedObservation(sel[i])]

\* C5: the observations of the result are one entry per OBX segment of more
\* than 5 fields, in segment order, with id = field 3, value = field 5 and
\* units = field 6, units being null exactly when there is no field 6; no
\* other segment contributes, and the key is absent when no OBX segment
\* qualifies.
C5_Observations ==
    ParseDone
        => /\ response.status = 200
           /\ LET r == response.body.v
                  expected == ExpectedObservations(hl7_segments)
              IN IF Len(expected) = 0
                 THEN "observations" \notin DOMAIN r
                 ELSE /\ "observations" \in DOMAIN r
                      /\ r["observations"].t = "list"
                      /\ Len(r["observations"].v) = Len(expected)
                      /\ \A i \in 1..Len(expected) :
                            r["observations"].v[i] = expected[i]

\* Two OBX segments qualify, one of them without units, next to a segment
\* that does not.
C5_Witness ==
    /\ ParseDone
    /\ response.status = 200
    /\ Len(hl7_segments) = 3
    /\ Qualifies(hl7_segments[1]) /\ Len(hl7_segments[1]) = 6
    /\ ~Qualifies(hl7_segments[2])
    /\ Qualifies(hl7_segments[3]) /\ Len(hl7_segments[3]) > 6
    /\ Len(response.body.v["observations"].v) = 2
    /\ response.body.v["observations"].v[1].v["units"] = PyNone

---------------------------------------------------------------------------
(* Properties of /fhir-to-hl7                                              *)

ConvertDone == pc = "done" /\ endpoint = "convert_fhir_to_hl7"

\* C2 as stated: convert_fhir_to_hl7 returns a string for every input
\* mapping, whatever the shape of its values, so that /fhir-to-hl7 never
\* answers 400.
C2_ConvertTotal ==
    ConvertDone => (response.status = 200 /\ response.body.v["hl7_message"].t = "str")

Has(d, key) == key \in DOMAIN d.v
IsStr(x) == x.t = "str"

\* name is absent or empty.
NameEmpty(d) == ~Has(d, "name") \/ ~truthy(d.v["name"])

\* name is a non-empty sequence of mappings.
NameListed(d) ==
    /\ Has(d, "name")
    /\ d.v["name"].t = "list"
    /\ Len(d.v["name"].v) > 0
    /\ \A i \in 1..Len(d.v["name"].v) : d.v["name"].v[i].t = "dict"

\* The record is a PatientResource: its name is a non-empty sequence of
\* mappings, the given of the first one is absent, null or a sequence of
\* strings, and family, id, gender and birthDate are absent or strings.
PatientResource(d) ==
    /\ NameListed(d)
    /\ LET first == d.v["name"].v[1]
       IN /\ Has(first, "family") => IsStr(first.v["family"])
          /\ Has(first, "given") =>
                \/ first.v["given"] = PyNone
                \/ /\ first.v["given"].t = "list"
                   /\ \A i \in 1..Len(first.v["given"].v) : IsStr(first.v["given"].v[i])
    /\ \A k \in {"id", "gender", "birthDate"} : Has(d, k) => IsStr(d.v[k])

\* The text of a value, the empty string when it is absent.
TextOf(d, key) == IF Has(d, key) THEN d.v[key].v ELSE E
FirstGiven(d) ==
    LET first == d.v["name"].v[1]
    IN IF Has(first, "given") /\ first.v["given"] # PyNone /\ Len(first.v["given"].v) > 0
       THEN first.v["given"].v[1].v
       ELSE E

ExpectedPid(d) ==
    <<"P", "I", "D", "|", "|", "|">> \o TextOf(d, "id") \o <<"|", "|">>
        \o TextOf(d.v["name"].v[1], "family") \o <<"^">> \o FirstGiven(d)
        \o <<"|", "|">> \o TextOf(d, "birthDate") \o <<"|">> \o TextOf(d, "gender")

NoDelimiter(s) == \A i \in 1..Len(s) : s[i] \notin {PIPE, CARET, CR}

\* The strings of the record hold none of '|', '^' and carriage return.
Delimited(d) ==
    /\ \A k \in {"id", "gender", "birthDate"} : NoDelimiter(TextOf(d, k))
    /\ NoDelimiter(TextOf(d.v["name"].v[1], "family"))
    /\ NoDelimiter(FirstGiven(d))

\* C10: the parse of the conversion of a PatientResource whose strings hold no
\* delimiter has exactly patient_id = id, last_name = family and first_name =
\* the first given name, each empty when absent, and no observations; the
\* parse of the conversion of a record without a name is the empty record.
C10_RoundTrip ==
    (pc = "done" /\ endpoint = "parse_hl7" /\ origin # NoRecord)
        => /\ NameEmpty(origin) =>
                /\ response.status = 200
                /\ response.body = EmptyDict
           /\ (PatientResource(origin) /\ Delimited(origin)) =>
                /\ response.status = 200
                /\ response.body =
                     Dict([patient_id |-> Str(TextOf(origin, "id")),
                           last_name |-> Str(TextOf(origin.v["name"].v[1], "family")),
                           first_name |-> Str(FirstGiven(origin))])

\* The conversion of a record with an id, a family name and a given name was
\* parsed back.
C10_Witness ==
    /\ pc = "done" /\ endpoint = "parse_hl7" /\ origin # NoRecord
    /\ PatientResource(origin) /\ Delimited(origin)
    /\ Len(TextOf(origin, "id")) > 0
    /\ Len(TextOf(origin.v["name"].v[1], "family")) > 0
    /\ Len(FirstGiven(origin)) > 0
    /\ response.status = 200

---------------------------------------------------------------------------
(* Properties of the outbound calls                                        *)

\* Two characters are the same letter in either case, or the same character.
SameLetter(a, b) ==
    \/ a = b
    \/ \E i \in 1..Len(LowerLetters) : {a, b} = {LowerLetters[i], UpperLetters[i]}

EqualIgnoringCase(s, w) ==
    Len(s) = Len(w) /\ \A i \in 1..Len(w) : SameLetter(s[i], w[i])

Accepted(method) == \E w \in {GET, POST, PUT, DELETE} : EqualIgnoringCase(method, w)

\* C7: call_external_api accepts exactly GET, POST, PUT and DELETE compared
\* without regard to case: for these the request is issued, and for any other
\* method the call is rejected with the invalid-argument error and no
\* outbound request has been issued.
C7_MethodsAccepted ==
    (endpoint = "call_external_api" /\ pc # "idle")
        => IF Accepted(request.method)
           THEN outbound = 1
           ELSE /\ outbound = 0
                /\ pc = "done"
                /\ upstream = NoReply
                /\ response = [status |-> 500, detail |-> "ValueError"]

\* "patch" was rejected with no outbound request issued.
C7_Witness ==
    /\ endpoint = "call_external_api"
    /\ request.method = <<"p", "a", "t", "c", "h">>
    /\ pc = "done"
    /\ outbound = 0
    /\ response.status = 500

OutboundRoutes ==
    {"get_patient", "search_patients", "get_patient_observations", "call_external_api"}

Non2xx(status) == status < 200 \/ status > 299
ClientOrServerError(status) == status >= 400 /\ status <= 599

\* The outbound call failed: the transport raised, or the status is one that
\* Failing holds of.
UpstreamFailed(Failing(_)) ==
    \/ upstream.kind = "error"
    \/ upstream.kind = "response" /\ Failing(upstream.status)

ExpectedStatus ==
    [route \in OutboundRoutes \cup {"parse_hl7", "convert_fhir_to_hl7"} |->
        CASE route = "get_patient" -> 404
          [] route \in {"parse_hl7", "convert_fhir_to_hl7"} -> 400
          [] OTHER -> 500]

\* The entry array of a bundle, or the empty sequence.
Entries(bundle) == IF Has(bundle, "entry") THEN bundle.v["entry"] ELSE List(<<>>)

\* The failure mapping, for a given reading of which upstream statuses fail.
FailureMapping(Failing(_)) ==
    pc = "done"
        => /\ response.status \in {200, ExpectedStatus[endpoint]}
           /\ (response.status = 200) <=> ("body" \in DOMAIN response)
           /\ (endpoint \in OutboundRoutes /\ outbound = 1 /\ UpstreamFailed(Failing))
                => response.status = ExpectedStatus[endpoint]
           /\ (endpoint \in OutboundRoutes /\ outbound = 0)
                => response.status = ExpectedStatus[endpoint]
           /\ (endpoint \in OutboundRoutes /\ response.status = 200)
                => /\ upstream.kind = "response"
                   /\ CASE endpoint = "get_patient" ->
                             response.body = upstream.body.json.v
                        [] endpoint = "call_external_api" ->
                             response.body = IF upstream.body.content
                                             THEN upstream.body.json.v
                                             ELSE EmptyDict
                        [] OTHER -> response.body = Entries(upstream.body.json.v)
           /\ (endpoint = "parse_hl7" /\ response.status = 200)
                => response.body.t = "dict"
           /\ (endpoint = "convert_fhir_to_hl7" /\ response.status = 200)
                => DOMAIN response.body.v = {"hl7_message"}

NoRetries(Failing(_)) ==
    /\ outbound <= 1
    /\ (endpoint \in OutboundRoutes /\ upstream # NoReply /\ UpstreamFailed(Failing))
         => /\ pc = "done"
            /\ outbound = 1
            /\ response.status = ExpectedStatus[endpoint]
            /\ "body" \notin DOMAIN response

===========================================================================
